---- MODULE Spec2Model ----
(***************************************************************************)
(* Threshold-aware renormalization-group running of flavio                 *)
(* (flavio/physics/running/running.py): rg_evolve, rg_evolve_sm and the    *)
(* lru_cache'd _rg_evolve_sm.                                              *)
(*                                                                         *)
(* Scales.  The code only compares scales (==, <, <=, >, >=) and takes     *)
(* max/min of two of them, so scales are modelled on an integer grid in    *)
(* units of 0.05: grid point 2 is the strange threshold 0.1, grid point 1  *)
(* is a positive scale below it (0.05), and np.inf is a point above every  *)
(* grid point.  Every relative order of scale_in, scale_out and the four   *)
(* thresholds that floats can produce occurs for some grid values.         *)
(*                                                                         *)
(* State vectors.  odeint is an external solver; its result is modelled    *)
(* symbolically: a vector is the caller's initial vector (x0) together     *)
(* with the sequence of integrations applied to it (path), so two vectors  *)
(* are equal exactly when they come from the same initial vector through   *)
(* the same integrations.                                                  *)
(***************************************************************************)
EXTENDS Integers, Sequences, FiniteSets, TLC

\* ------------------------------------------------------------------ bounds
\* Largest grid scale (scales and quark masses range over 1..MaxScale).
MaxScale == 7
\* Caller-supplied initial vectors are numbered 1..MaxInit.
MaxInit == 1
\* Right-hand-side selectors (derivative_nf objects) are numbered 1..MaxSel.
MaxSel == 1

\* -------------------------------------------------------- program constants
\* 0.1, the strange threshold, in grid units (running.py:15 and :26).
StrangeThreshold == 2
\* np.inf (running.py:30): above every scale of the grid.
inf == MaxScale + 1

Scales == 1..MaxScale

\* ------------------------------------------------------------ state vectors
Vector(x, p) == [x0 |-> x, path |-> p]
\* The name sol before its first assignment (running.py:41 / :55).
Unbound == Vector(0, <<>>)
\* derivative_nf(nf): the right-hand side the selector returns for regime nf.
derivative_nf(sel, nf) == <<sel, nf>>

\* rg_evolve (running.py:7-9): odeint from scale_in to scale_out, sol[1].
rg_evolve(initial_condition, derivative, scale_in, scale_out) ==
    Vector(initial_condition.x0,
           Append(initial_condition.path,
                  <<derivative[1], derivative[2], scale_in, scale_out>>))

\* Mutant of thresholds: regime 6 ends at the top mass, not at infinity.
thresholdsNoInf(a) ==
    [n \in 3..7 |->
        CASE n = 3 -> StrangeThreshold
          [] n = 4 -> a.mc
          [] n = 5 -> a.mb
          [] n = 6 -> a.mt
          [] n = 7 -> a.mt]

\* The thresholds dict of _rg_evolve_sm (running.py:25-31).
thresholds(a) ==
    [n \in 3..7 |->
        CASE n = 3 -> StrangeThreshold
          [] n = 4 -> a.mc
          [] n = 5 -> a.mb
          [] n = 6 -> a.mt
          [] n = 7 -> inf]

max(x, y) == IF x >= y THEN x ELSE y
min(x, y) == IF x <= y THEN x ELSE y

\* --------------------------------------------------------------- the state
VARIABLES
    args,         \* the arguments of the current rg_evolve_sm call
    pc,           \* "idle" | "down" | "up" | "done"
    nf,           \* loop variable of the for loop in progress
    initial_nf,   \* local of _rg_evolve_sm
    scale_in_nf,  \* local of _rg_evolve_sm
    sol,          \* local of _rg_evolve_sm
    calls,        \* the rg_evolve calls made by the current call, in order,
                  \* each with whether odeint succeeded (ok)
    result,       \* how the current call ended
    cache,        \* the lru_cache of _rg_evolve_sm, least recently used first
    used          \* history: every argument tuple _rg_evolve_sm has returned
                  \* for, with the value first computed for it, in the order
                  \* of its last use (oldest first); never truncated

vars == <<args, pc, nf, initial_nf, scale_in_nf, sol, calls, result, cache, used>>
locals == <<nf, initial_nf, scale_in_nf, sol>>

NoArgs == [initial_condition |-> Unbound, mc |-> 0, mb |-> 0, mt |-> 0,
           derivative_nf |-> 0, scale_in |-> 0, scale_out |-> 0]
NoResult == [kind |-> "none", via |-> "none", val |-> Unbound, err |-> 0]

Init ==
    /\ args = NoArgs
    /\ pc = "idle"
    /\ nf = 0
    /\ initial_nf = Unbound
    /\ scale_in_nf = 0
    /\ sol = Unbound
    /\ calls = <<>>
    /\ result = NoResult
    /\ cache = <<>>
    /\ used = <<>>

\* ------------------------------------------------------------- lru_cache
\* maxsize of @lru_cache (running.py:22).
maxsize == 32

\* Mutant of MakeKey: the initial vector is left out of the key.
MakeKeyNoInitial(a) ==
    <<Unbound, a.mc, a.mb, a.mt, a.derivative_nf, a.scale_in, a.scale_out>>

\* The cache key: the positional arguments of _rg_evolve_sm (running.py:20,
\* :23); the selector enters by identity, the numbers by value.
MakeKey(a) ==
    <<a.initial_condition, a.mc, a.mb, a.mt, a.derivative_nf,
      a.scale_in, a.scale_out>>

\* Position of key k in cache c, 0 when absent.
CacheIndex(c, k) ==
    IF \E i \in 1..Len(c) : c[i].key = k
    THEN CHOOSE i \in 1..Len(c) : c[i].key = k
    ELSE 0

Without(c, i) == [j \in 1..(Len(c) - 1) |-> IF j < i THEN c[j] ELSE c[j + 1]]

\* Mutant of CacheTouch: a hit leaves the order alone (first in, first out).
CacheTouchNoRefresh(c, i) == c

\* A hit makes the entry the most recently used one.
CacheTouch(c, i) == Append(Without(c, i), c[i])

\* A miss stores the new entry as most recently used and, when the cache
\* would exceed maxsize, drops the least recently used entry.
CacheStore(c, k, v) ==
    LET c1 == Append(c, [key |-> k, val |-> v])
    IN  IF Len(c1) > maxsize THEN Tail(c1) ELSE c1

\* The history `used`: position of argument tuple a, 0 when absent.
UsedIndex(u, a) ==
    IF \E i \in 1..Len(u) : u[i].a = a
    THEN CHOOSE i \in 1..Len(u) : u[i].a = a
    ELSE 0
\* _rg_evolve_sm computed v for a: a becomes the last used tuple (the value
\* first computed for it is kept).
UsedNote(u, a, v) ==
    LET i == UsedIndex(u, a)
    IN  IF i = 0 THEN Append(u, [a |-> a, val |-> v])
        ELSE Append(Without(u, i), u[i])
\* The cache answered a call with a: a becomes the last used tuple.
UsedTouch(u, a) ==
    LET i == UsedIndex(u, a)
    IN  IF i = 0 THEN u ELSE Append(Without(u, i), u[i])

\* ----------------------------------------------------- the ways a call ends
Value(v, via) == [kind |-> "value", via |-> via, val |-> v, err |-> 0]
Error(kind, via, i) == [kind |-> kind, via |-> via, val |-> Unbound, err |-> i]

\* _rg_evolve_sm returns v (running.py:43, :57, :60): the lru_cache wrapper
\* stores it under the call's key and hands it to the caller.
ReturnComputed(v, via) ==
    /\ result' = Value(v, via)
    /\ cache' = CacheStore(cache, MakeKey(args), v)
    /\ used' = UsedNote(used, args, v)
    /\ pc' = "done"

\* Mutant of Raise: the exception is swallowed and the last vector that was
\* computed is returned (and cached) as the result.
RaiseSwallowed(kind, via) ==
    /\ result' = Value(initial_nf, "terminal")
    /\ cache' = CacheStore(cache, MakeKey(args), initial_nf)
    /\ used' = used
    /\ pc' = "done"

\* rg_evolve raises (running.py:8): the exception leaves _rg_evolve_sm, the
\* lru_cache wrapper and rg_evolve_sm; nothing is stored.
Raise(kind, via) ==
    /\ result' = Error(kind, via, Len(calls'))
    /\ UNCHANGED <<cache, used>>
    /\ pc' = "done"

\* ------------------------------------------------------------ rg_evolve_sm
\* Mutant of SameScale: the domain guard tested before the identity guard.
SameScaleAfterDomain(a) ==
    a.scale_in = a.scale_out /\ a.scale_out >= StrangeThreshold
\* Mutant of BelowStrange: the guard reads scale_in instead of scale_out.
BelowStrangeOfScaleIn(a) == a.scale_in < StrangeThreshold
\* Mutant of BelowStrange: no domain guard.
NoDomainGuard(a) == FALSE

\* running.py:12 and :15, the two guards of rg_evolve_sm.
SameScale(a) == a.scale_in = a.scale_out
BelowStrange(a) == a.scale_out < StrangeThreshold

\* rg_evolve_sm (running.py:11-20) up to the first loop iteration of
\* _rg_evolve_sm: the guards, the lru_cache lookup (running.py:22) and, on a
\* miss, the choice of direction (running.py:32-35, :46-49).
rg_evolve_sm(a) ==
    /\ args' = a
    /\ calls' = <<>>
    /\ IF SameScale(a) THEN
            \* no need to run!
            /\ result' = Value(a.initial_condition, "identity")
            /\ pc' = "done"
            /\ nf' = 0 /\ initial_nf' = Unbound /\ scale_in_nf' = 0
            /\ sol' = Unbound
            /\ UNCHANGED <<cache, used>>
       ELSE IF BelowStrange(a) THEN
            /\ result' = Error("ValueError", "guard", 0)
            /\ pc' = "done"
            /\ nf' = 0 /\ initial_nf' = Unbound /\ scale_in_nf' = 0
            /\ sol' = Unbound
            /\ UNCHANGED <<cache, used>>
       ELSE LET i == CacheIndex(cache, MakeKey(a))
            IN  IF i # 0 THEN
                    /\ result' = Value(cache[i].val, "hit")
                    /\ cache' = CacheTouch(cache, i)
                    /\ used' = UsedTouch(used, a)
                    /\ pc' = "done"
                    /\ nf' = 0 /\ initial_nf' = Unbound /\ scale_in_nf' = 0
                    /\ sol' = Unbound
                ELSE
                    /\ sol' = Unbound
                    /\ IF a.scale_in > a.scale_out THEN
                            /\ pc' = "down" /\ nf' = 6
                            /\ initial_nf' = a.initial_condition
                            /\ scale_in_nf' = a.scale_in
                            /\ result' = NoResult
                            /\ UNCHANGED <<cache, used>>
                       ELSE IF a.scale_in < a.scale_out THEN
                            /\ pc' = "up" /\ nf' = 3
                            /\ initial_nf' = a.initial_condition
                            /\ scale_in_nf' = a.scale_in
                            /\ result' = NoResult
                            /\ UNCHANGED <<cache, used>>
                       ELSE
                            \* neither branch: running.py:60 with sol unbound
                            /\ nf' = 0
                            /\ initial_nf' = Unbound /\ scale_in_nf' = 0
                            /\ result' = Error("UnboundLocalError",
                                               "fallback", 0)
                            /\ UNCHANGED <<cache, used>>
                            /\ pc' = "done"

\* ----------------------------------------------------------- running DOWN
\* Mutant of DownSkip: a start scale on a threshold is not skipped.
DownSkipStrict(a, n) == a.scale_in < thresholds(a)[n]
\* Mutant of DownNextScale: the other end of the regime.
DownNextScaleUpper(a, n) == thresholds(a)[n + 1]

\* running.py:37
DownSkip(a, n) == a.scale_in <= thresholds(a)[n]
\* Mutant of DownStop: the lower of the two scales.
DownStopMin(a, n) == min(thresholds(a)[n], a.scale_out)
\* running.py:40
DownStop(a, n) == max(thresholds(a)[n], a.scale_out)
\* running.py:45
DownNextScale(a, n) == thresholds(a)[n]

\* `return sol` after the loops (running.py:60); sol may never have been
\* assigned.
FallThrough(s) ==
    IF s = Unbound THEN
        /\ result' = Error("UnboundLocalError", "fallback", 0)
        /\ UNCHANGED <<cache, used>>
        /\ pc' = "done"
    ELSE ReturnComputed(s, "fallback")

\* The for statement fetches the next regime; after the last one control
\* falls through to running.py:60 with sol as it then is.
Continue(last, step, s) ==
    IF nf = last THEN nf' = nf /\ FallThrough(s)
    ELSE pc' = pc /\ nf' = nf + step /\ UNCHANGED <<result, cache, used>>

\* One iteration of `for nf in (6,5,4,3)` (running.py:36-45).
DownIter ==
    /\ pc = "down"
    /\ UNCHANGED args
    /\ IF DownSkip(args, nf) THEN
            /\ Continue(3, -1, sol)
            /\ UNCHANGED <<initial_nf, scale_in_nf, sol, calls>>
       ELSE LET scale_stop == DownStop(args, nf)
                derivative == derivative_nf(args.derivative_nf, nf)
                s == rg_evolve(initial_nf, derivative, scale_in_nf, scale_stop)
            IN  \E ok \in BOOLEAN :
                  /\ calls' = Append(calls,
                        [initial |-> initial_nf, derivative |-> derivative,
                         scale_in |-> scale_in_nf, scale_out |-> scale_stop,
                         ok |-> ok])
                  /\ IF ~ok THEN
                         /\ Raise("IntegrationError", "odeint")
                         /\ UNCHANGED locals
                     ELSE
                         /\ sol' = s
                         /\ IF scale_stop = args.scale_out THEN
                                /\ ReturnComputed(s, "terminal")
                                /\ UNCHANGED <<nf, initial_nf, scale_in_nf>>
                            ELSE
                                /\ initial_nf' = s
                                /\ scale_in_nf' = DownNextScale(args, nf)
                                /\ Continue(3, -1, s)

\* ------------------------------------------------------------- running UP
\* Mutant of UpSkip: a start scale on a threshold is not skipped.
UpSkipStrict(a, n) == n < 6 /\ a.scale_in > thresholds(a)[n + 1]

\* running.py:51
UpSkip(a, n) == n < 6 /\ a.scale_in >= thresholds(a)[n + 1]
\* Mutant of UpStop: always integrate to the upper threshold.
UpStopNoMin(a, n) == thresholds(a)[n + 1]
\* running.py:54
UpStop(a, n) == min(thresholds(a)[n + 1], a.scale_out)
\* running.py:59
UpNextScale(a, n) == thresholds(a)[n]

\* One iteration of `for nf in (3,4,5,6)` (running.py:50-59).
UpIter ==
    /\ pc = "up"
    /\ UNCHANGED args
    /\ IF UpSkip(args, nf) THEN
            /\ Continue(6, 1, sol)
            /\ UNCHANGED <<initial_nf, scale_in_nf, sol, calls>>
       ELSE LET scale_stop == UpStop(args, nf)
                derivative == derivative_nf(args.derivative_nf, nf)
                s == rg_evolve(initial_nf, derivative, scale_in_nf, scale_stop)
            IN  \E ok \in BOOLEAN :
                  /\ calls' = Append(calls,
                        [initial |-> initial_nf, derivative |-> derivative,
                         scale_in |-> scale_in_nf, scale_out |-> scale_stop,
                         ok |-> ok])
                  /\ IF ~ok THEN
                         /\ Raise("IntegrationError", "odeint")
                         /\ UNCHANGED locals
                     ELSE
                         /\ sol' = s
                         /\ IF scale_stop = args.scale_out THEN
                                /\ ReturnComputed(s, "terminal")
                                /\ UNCHANGED <<nf, initial_nf, scale_in_nf>>
                            ELSE
                                /\ initial_nf' = s
                                /\ scale_in_nf' = UpNextScale(args, nf)
                                /\ Continue(6, 1, s)

\* ------------------------------------------------------------- the callers
\* Argument tuples of one call: any initial vector, quark masses, selector
\* and scales of the grid.
AllArgs ==
    [initial_condition : {Vector(x, <<>>) : x \in 1..MaxInit},
     mc : Scales, mb : Scales, mt : Scales,
     derivative_nf : 1..MaxSel,
     scale_in : Scales, scale_out : Scales]

\* The first call of a process (the cache is empty).
Evolve == pc = "idle" /\ \E a \in AllArgs : rg_evolve_sm(a)

Next == Evolve \/ DownIter \/ UpIter

Spec == Init /\ [][Next]_vars

\* A caller that works through a list of MaxKeys distinct argument tuples
\* (well-formed masses; tuples 2j-1 and 2j share the initial vector j and
\* differ in the scales: a two-segment down run and a one-segment up run).
\* It calls the first tuple _rg_evolve_sm has not yet returned for, and may
\* at any time repeat one of the first NumProbes tuples.
MaxKeys == 34
NumProbes == 1

SweepArgs(k) ==
    [initial_condition |-> Vector((k + 1) \div 2, <<>>),
     mc |-> 3, mb |-> 4, mt |-> 6,
     derivative_nf |-> 1,
     scale_in |-> IF k % 2 = 1 THEN 7 ELSE 2,
     scale_out |-> IF k % 2 = 1 THEN 5 ELSE 3]

Callable ==
    LET returned == {k \in 1..MaxKeys :
                        \E i \in 1..Len(used) : used[i].a = SweepArgs(k)}
    IN  {k \in 1..MaxKeys :
            \/ k <= NumProbes
            \/ k \notin returned /\ \A j \in 1..(k - 1) : j \in returned}

SweepCall ==
    /\ pc \in {"idle", "done"}
    /\ \E k \in Callable : rg_evolve_sm(SweepArgs(k))

NextCache == SweepCall \/ DownIter \/ UpIter

SpecCache == Init /\ [][NextCache]_vars

\* ===================================================================
\* Properties
\* ===================================================================
\* The current call's thresholds, regimes and results, read off the state.
Th(n) == thresholds(args)[n]
WellFormed == StrangeThreshold < args.mc /\ args.mc < args.mb /\ args.mb < args.mt
GoingDown == args.scale_in > args.scale_out /\ args.scale_out >= StrangeThreshold
GoingUp == args.scale_in < args.scale_out /\ args.scale_out >= StrangeThreshold
Regime(i) == calls[i].derivative[2]
Regimes == [i \in 1..Len(calls) |-> Regime(i)]
Integrated(c) == rg_evolve(c.initial, c.derivative, c.scale_in, c.scale_out)
\* The call ran _rg_evolve_sm to a return statement.
Computed == pc = "done" /\ result.kind = "value"
                /\ result.via \in {"terminal", "fallback"}
InOrder(order, S) == SelectSeq(order, LAMBDA n : n \in S)

\* C1 (as claimed): running up with well-formed thresholds and a solver
\* that does not fail, every Segment Integrator call after the first starts at the scale where the
\* previous one stopped, which is the threshold thresholds[nf+1] that ends
\* the previous regime, with the previous result as its initial vector, and
\* every segment runs strictly upward.
C1_UpChain ==
    (WellFormed /\ GoingUp /\ result.kind # "IntegrationError") =>
        \A i \in 1..Len(calls) :
            /\ calls[i].scale_in < calls[i].scale_out
            /\ i = 1 => /\ calls[1].scale_in = args.scale_in
                        /\ calls[1].initial = args.initial_condition
            /\ i > 1 => /\ calls[i].scale_in = calls[i - 1].scale_out
                        /\ calls[i].scale_in = Th(Regime(i - 1) + 1)
                        /\ calls[i].initial = Integrated(calls[i - 1])

\* C2: running down with well-formed thresholds, the first Segment
\* Integrator call starts at scale_in with the caller's vector; the call of
\* regime nf stops at max(thresholds[nf], scale_out); every later call
\* starts where the previous one stopped (that regime's threshold) with the
\* previous result; every segment runs strictly downward; and a call that
\* returns has made its last segment end at scale_out and returns that
\* segment's result.
C2_DownChain ==
    (WellFormed /\ GoingDown) =>
        /\ \A i \in 1..Len(calls) :
            /\ calls[i].scale_in > calls[i].scale_out
            /\ calls[i].scale_out =
                  IF Th(Regime(i)) >= args.scale_out THEN Th(Regime(i))
                  ELSE args.scale_out
            /\ i = 1 => /\ calls[1].scale_in = args.scale_in
                        /\ calls[1].initial = args.initial_condition
            /\ i > 1 => /\ calls[i].scale_in = calls[i - 1].scale_out
                        /\ calls[i].scale_in = Th(Regime(i - 1))
                        /\ calls[i].initial = Integrated(calls[i - 1])
        /\ Computed =>
            /\ calls # <<>>
            /\ calls[Len(calls)].scale_out = args.scale_out
            /\ result.val = Integrated(calls[Len(calls)])
        /\ pc = "done" => result.kind \in {"value", "IntegrationError"}

\* A down run over three regimes that returned.
C2_Witness ==
    /\ WellFormed /\ GoingDown /\ Computed
    /\ Len(calls) >= 3

\* C3 (as claimed, for start scales at or above the strange threshold and a
\* solver that does not fail):
\* with well-formed thresholds every Segment Integrator call made with the
\* right-hand side of regime nf starts and ends inside
\* [thresholds[nf], thresholds[nf+1]].
C3_Homogeneous ==
    (WellFormed /\ (GoingDown \/ GoingUp)
                /\ args.scale_in >= StrangeThreshold
                /\ result.kind # "IntegrationError") =>
        \A i \in 1..Len(calls) :
            /\ Th(Regime(i)) <= calls[i].scale_in
            /\ calls[i].scale_in <= Th(Regime(i) + 1)
            /\ Th(Regime(i)) <= calls[i].scale_out
            /\ calls[i].scale_out <= Th(Regime(i) + 1)

\* The regimes the claim C4 names, as sets.
DownSet == {n \in 3..6 : Th(n) < args.scale_in /\ args.scale_out < Th(n + 1)}
UpSetClaimed ==
    {n \in 3..6 : (n = 6 \/ args.scale_in < Th(n + 1))
                    /\ Th(n) < args.scale_out}
UpSet ==
    {n \in 3..6 : (n = 6 \/ args.scale_in < Th(n + 1))
                    /\ (n = 3 \/ Th(n) < args.scale_out)}

\* C4 (as claimed): a call that computes its result with well-formed
\* thresholds has integrated, running down, exactly the regimes nf with
\* thresholds[nf] < scale_in and scale_out < thresholds[nf+1], in decreasing
\* order, and running up exactly the regimes nf with (nf = 6 or
\* scale_in < thresholds[nf+1]) and thresholds[nf] < scale_out, in
\* increasing order.
C4_RegimesClaimed ==
    (WellFormed /\ Computed) =>
        /\ GoingDown => Regimes = InOrder(<<6, 5, 4, 3>>, DownSet)
        /\ GoingUp => Regimes = InOrder(<<3, 4, 5, 6>>, UpSetClaimed)

\* C4 (amended): as claimed, except that running up regime 3 is integrated
\* whenever scale_in < thresholds[4], also when scale_out is exactly 0.1
\* (the up set is { nf : (nf = 6 or scale_in < thresholds[nf+1]) and
\* (nf = 3 or thresholds[nf] < scale_out) }).  Hence a start scale exactly
\* on a threshold belongs to the lower regime running down and to the upper
\* regime running up, and a run with mc < mb < scale_out < scale_in < mt
\* (1.27 < 4.18 < 5.0 < 91.1876 < 173.0) makes exactly one call, from
\* scale_in to scale_out, with the regime-5 right-hand side.
C4_Regimes ==
    (WellFormed /\ Computed) =>
        /\ GoingDown => Regimes = InOrder(<<6, 5, 4, 3>>, DownSet)
        /\ GoingUp => Regimes = InOrder(<<3, 4, 5, 6>>, UpSet)
        /\ \A n \in 3..6 :
              args.scale_in = Th(n) =>
                  /\ GoingDown => Regime(1) = n - 1
                  /\ GoingUp => Regime(1) = n
        /\ (args.mb < args.scale_out /\ args.scale_out < args.scale_in
                /\ args.scale_in < args.mt) =>
              calls = << [initial |-> args.initial_condition,
                          derivative |-> <<args.derivative_nf, 5>>,
                          scale_in |-> args.scale_in,
                          scale_out |-> args.scale_out,
                          ok |-> TRUE] >>

\* An up run that starts exactly on the charm threshold and crosses two
\* more thresholds.
C4_Witness ==
    /\ WellFormed /\ GoingUp /\ Computed
    /\ args.scale_in = args.mc
    /\ Regimes = <<4, 5, 6>>

\* C5: a call with scale_in = scale_out returns the caller's initial vector
\* and makes no Segment Integrator call, whatever the scale (also below the
\* strange threshold) and whatever the quark masses.
C5_Identity ==
    (pc # "idle" /\ args.scale_in = args.scale_out) =>
        /\ pc = "done"
        /\ result.kind = "value"
        /\ result.val = args.initial_condition
        /\ calls = <<>>

\* An identity call below the strange threshold with masses out of order.
C5_Witness ==
    /\ pc = "done" /\ result.kind = "value"
    /\ args.scale_in = args.scale_out
    /\ args.scale_in < StrangeThreshold
    /\ args.mc > args.mb

\* C6 (as claimed): every call with scale_out below the strange threshold
\* ends in a ValueError without any Segment Integrator call, for every
\* scale_in.
C6_DomainGuardClaimed ==
    (pc # "idle" /\ args.scale_out < StrangeThreshold) =>
        /\ pc = "done"
        /\ result.kind = "ValueError"
        /\ calls = <<>>

\* C6 (amended): every call with scale_out below the strange threshold and
\* scale_in different from scale_out ends in a ValueError without any
\* Segment Integrator call (with scale_in = scale_out the identity
\* short-circuit comes first and the call returns its initial vector).
C6_DomainGuard ==
    (pc # "idle" /\ args.scale_out < StrangeThreshold
                 /\ args.scale_in # args.scale_out) =>
        /\ pc = "done"
        /\ result.kind = "ValueError"
        /\ result.val = Unbound
        /\ calls = <<>>

\* A refused call from above the strange threshold to below it.
C6_Witness ==
    /\ pc = "done" /\ result.kind = "ValueError"
    /\ args.scale_out < StrangeThreshold
    /\ args.scale_in > StrangeThreshold

\* The quark-mass thresholds strictly between the two scales of the call.
Between ==
    {n \in 4..6 :
        \/ args.scale_in < Th(n) /\ Th(n) < args.scale_out
        \/ args.scale_out < Th(n) /\ Th(n) < args.scale_in}

\* C7: a call that computes its result (a cache miss) with well-formed
\* thresholds, scale_in # scale_out and scale_out >= 0.1 has made
\* 1 + (number of quark-mass thresholds strictly between scale_in and
\* scale_out) Segment Integrator calls, each with another regime: one call
\* when no threshold lies between, two calls and one regime change when
\* exactly one does.
C7_SegmentCount ==
    (WellFormed /\ Computed /\ (GoingDown \/ GoingUp)) =>
        /\ Len(calls) = 1 + Cardinality(Between)
        /\ \A i \in 2..Len(calls) :
              Regime(i) = Regime(i - 1) + (IF GoingUp THEN 1 ELSE -1)

\* An up run from just below the bottom threshold to just above it.
C7_Witness ==
    /\ WellFormed /\ GoingUp /\ Computed
    /\ args.mc < args.scale_in /\ args.scale_in < args.mb
    /\ args.mb < args.scale_out /\ args.scale_out < args.mt
    /\ Len(calls) = 2

\* ------------------------------------------------------------ the cache
\* The key of an argument tuple, and what the cache and the history hold
\* for it.
KeyOf(a) ==
    <<a.initial_condition, a.mc, a.mb, a.mt, a.derivative_nf,
      a.scale_in, a.scale_out>>
Cached(c, a) == \E i \in 1..Len(c) : c[i].key = KeyOf(a)
HasReturned(a) == \E i \in 1..Len(used) : used[i].a = a
FirstValue(a) == used[CHOOSE i \in 1..Len(used) : used[i].a = a].val
Guarded(a) == a.scale_in = a.scale_out \/ a.scale_out < StrangeThreshold
CallStep == pc \in {"idle", "done"}

\* C8: when a call passes the guards and its key (initial vector, mc, mb,
\* mt, selector, scale_in, scale_out) is in the cache, which holds only keys
\* of calls that completed, the call returns the value the first completed
\* call with that key returned and makes no Segment Integrator call; and a
\* call is answered from the cache only when its identical key is in it.
C8_CacheHit ==
    [][ CallStep =>
          /\ (~Guarded(args') /\ Cached(cache, args')) =>
                /\ HasReturned(args')
                /\ pc' = "done"
                /\ result'.kind = "value" /\ result'.via = "hit"
                /\ result'.val = FirstValue(args')
                /\ calls' = <<>>
          /\ result'.via = "hit" => Cached(cache, args') ]_vars

\* A call answered from a cache that holds other keys too.
C8_Witness ==
    /\ pc = "done" /\ result.via = "hit" /\ calls = <<>>
    /\ Len(cache) = maxsize
    /\ result.val = FirstValue(args)

\* The last n entries of the history.
LastUsed(n) == SubSeq(used, Len(used) - n + 1, Len(used))

\* C9: the cache never holds more than 32 entries, and it holds exactly the
\* (at most 32) keys whose last use, by a computed miss or by a hit, is
\* most recent, each with its value, least recently used first: a miss on
\* a full cache evicts the key whose last use is oldest and a hit refreshes
\* its key.  So when 33 distinct keys were last used in the order of their
\* insertion, the first is no longer cached and the other 32 are.
C9_BoundedLRU ==
    LET n == IF Len(used) < maxsize THEN Len(used) ELSE maxsize
        recent == LastUsed(n)
    IN  /\ Len(cache) <= 32
        /\ Len(cache) = n
        /\ \A i \in 1..n :
              /\ cache[i].key = KeyOf(recent[i].a)
              /\ cache[i].val = recent[i].val
        /\ (Len(used) = 33 /\ \A k \in 1..33 : used[k].a = SweepArgs(k)) =>
              /\ ~Cached(cache, SweepArgs(1))
              /\ \A k \in 2..33 : Cached(cache, SweepArgs(k))

\* The first key was hit while the cache filled up, so the miss that
\* overflowed the cache evicted the second key and kept the first.
C9_Witness ==
    /\ Len(used) = maxsize + 1 /\ Len(cache) = maxsize
    /\ used[1].a = SweepArgs(2)
    /\ Cached(cache, SweepArgs(1))
    /\ ~Cached(cache, SweepArgs(2))

\* C10: when a Segment Integrator call fails, the evolve call ends at once
\* with that call's error (no later segment, no value returned), the cache
\* is as it was before the failing call began, without an entry for its
\* key, and an identical call made next starts again from the first
\* segment.
C10_FailureAtomic ==
    [][ /\ (\E i \in 1..Len(calls') : ~calls'[i].ok) =>
              /\ pc' = "done"
              /\ result'.kind = "IntegrationError"
              /\ result'.val = Unbound
              /\ result'.err = Len(calls')
              /\ \A i \in 1..(Len(calls') - 1) : calls'[i].ok
              /\ ~Cached(cache', args')
        /\ (pc \in {"down", "up"} /\ result'.kind # "value") =>
              cache' = cache
        /\ (CallStep /\ result.kind = "IntegrationError"
                /\ args' = args) =>
              /\ pc' \in {"down", "up"}
              /\ calls' = <<>>
              /\ initial_nf' = args.initial_condition
              /\ scale_in_nf' = args.scale_in
              /\ cache' = cache ]_vars

\* The second segment of a call failed while the cache held other keys.
C10_Witness ==
    /\ pc = "done" /\ result.kind = "IntegrationError"
    /\ Len(calls) = 2 /\ calls[1].ok /\ ~calls[2].ok
    /\ cache # <<>>
    /\ ~Cached(cache, args)

\* ------------------------------------------------- chained evolve calls
\* Argument tuples with well-formed quark masses, 0.1 < mc < mb < mt.
WFArgs ==
    {a \in AllArgs : StrangeThreshold < a.mc /\ a.mc < a.mb /\ a.mb < a.mt}

\* The first call of a process, with well-formed masses.
EvolveWF == pc = "idle" /\ \E a \in WFArgs : rg_evolve_sm(a)

\* The caller evolves the vector the first call returned from the scale it
\* was evolved to on to any scale c (back to the first call's scale_in
\* included), with the same masses and selector.
EvolveOn ==
    /\ pc = "done" /\ result.kind = "value" /\ result.via # "identity"
    /\ Len(used) = 1 /\ args.initial_condition.path = <<>>
    /\ \E c \in Scales :
          rg_evolve_sm([args EXCEPT !.initial_condition = result.val,
                                    !.scale_in = args.scale_out,
                                    !.scale_out = c])

\* After the two legs the caller evolves the first call's initial vector
\* from the first call's scale_in directly to the scale the second leg
\* ended at.
EvolveDirect ==
    /\ pc = "done" /\ result.kind = "value" /\ result.via # "identity"
    /\ Len(used) = 2 /\ args.initial_condition.path # <<>>
    /\ rg_evolve_sm([args EXCEPT
            !.initial_condition = used[1].a.initial_condition,
            !.scale_in = used[1].a.scale_in])

NextChain == EvolveWF \/ DownIter \/ UpIter \/ EvolveOn \/ EvolveDirect

SpecChain == Init /\ [][NextChain]_vars

\* A Segment Integrator that is exact and reversible per regime: integrating
\* with one right-hand side from a to b and then from b to a is the
\* identity, so such adjacent pairs cancel in a vector's path.
Inverse(s, t) == s[1] = t[1] /\ s[2] = t[2] /\ s[3] = t[4] /\ s[4] = t[3]
RECURSIVE CancelInto(_, _)
CancelInto(stack, rest) ==
    IF rest = <<>> THEN stack
    ELSE IF stack # <<>> /\ Inverse(stack[Len(stack)], Head(rest))
         THEN CancelInto(SubSeq(stack, 1, Len(stack) - 1), Tail(rest))
         ELSE CancelInto(Append(stack, Head(rest)), Tail(rest))
Cancel(p) == CancelInto(<<>>, p)

\* The current call evolved the result of the first call A -> B back from
\* B to A, both at or above the strange threshold, and returned.
CameBack ==
    /\ Computed /\ WellFormed
    /\ Len(used) = 2 /\ args.initial_condition = used[1].val
    /\ args.scale_in = used[1].a.scale_out
    /\ args.scale_out = used[1].a.scale_in
    /\ args.scale_in >= StrangeThreshold
    /\ args.scale_out >= StrangeThreshold

\* C11 (as claimed): with well-formed thresholds and scales A # B at or
\* above 0.1, evolving a vector from A to B and the result back from B to A
\* with the same selector gives the original vector when the Segment
\* Integrator is reversible per regime: the segments of the way back are
\* the segments of the way out in reverse order, with their endpoints
\* swapped and the same regime on each.
C11_RoundTrip ==
    CameBack =>
        LET p == result.val.path
            m == Len(args.initial_condition.path)
        IN  /\ Len(p) = 2 * m
            /\ \A i \in 1..m : Inverse(p[i], p[2 * m + 1 - i])
            /\ Cancel(p) = <<>>

\* An exact, composable Segment Integrator: integrating one right-hand side
\* from a to b and then from b to c is integrating it from a to c, so
\* contiguous segments of one regime and selector merge in a vector's path.
Contiguous(s, t) == s[1] = t[1] /\ s[2] = t[2] /\ s[4] = t[3]
RECURSIVE ComposeInto(_, _)
ComposeInto(stack, rest) ==
    IF rest = <<>> THEN stack
    ELSE IF stack # <<>> /\ Contiguous(stack[Len(stack)], Head(rest))
         THEN LET s == stack[Len(stack)]
              IN  ComposeInto(
                      [stack EXCEPT ![Len(stack)] =
                          <<s[1], s[2], s[3], Head(rest)[4]>>],
                      Tail(rest))
         ELSE ComposeInto(Append(stack, Head(rest)), Tail(rest))
Compose(p) == ComposeInto(<<>>, p)

\* The three calls A -> B, B -> C on the result, and A -> C directly have
\* returned, B lies strictly between A and C, and no quark threshold lies
\* strictly between A and C.
OneRegimeLegs ==
    /\ pc = "done" /\ Len(used) = 3
    /\ used[2].a.initial_condition = used[1].val
    /\ used[3].a.initial_condition = used[1].a.initial_condition
    /\ LET A == used[1].a.scale_in
           B == used[1].a.scale_out
           C == used[2].a.scale_out
       IN  /\ used[2].a.scale_in = B
           /\ used[3].a.scale_in = A /\ used[3].a.scale_out = C
           /\ (A < B /\ B < C) \/ (A > B /\ B > C)
           /\ \A n \in 4..6 :
                 ~ (  (A < Th(n) /\ Th(n) < C)
                   \/ (C < Th(n) /\ Th(n) < A))

\* C12: path invariance inside one regime.  For scales A, B, C with B
\* strictly between A and C and no threshold between them, the direct
\* evolution A -> C and the two legs A -> B, B -> C integrate one and the
\* same regime's right-hand side on every segment, the legs meet at B, and
\* with an exact composable integrator both give the same vector.
C12_PathInvariance ==
    OneRegimeLegs =>
        LET legs   == used[2].val.path
            direct == used[3].val.path
            sel    == used[1].a.derivative_nf
        IN  /\ Len(direct) = 1 /\ Len(legs) = 2
            /\ \A i \in 1..2 : /\ legs[i][1] = sel
                               /\ legs[i][2] = direct[1][2]
            /\ legs[1][4] = used[1].a.scale_out
            /\ legs[2][3] = used[1].a.scale_out
            /\ Compose(legs) = Compose(direct)
            /\ Compose(direct) =
                  <<(<<sel, direct[1][2],
                       used[1].a.scale_in, used[2].a.scale_out>>)>>

\* Both directions occur, with a leg that starts exactly on a threshold.
C12_Witness ==
    /\ OneRegimeLegs
    /\ used[1].a.scale_in \in {Th(4), Th(5), Th(6)}
    /\ used[3].val.path[1][2] \in {4, 5}

\* C13: with well-formed thresholds, scale_in # scale_out and
\* scale_out >= 0.1, the loop over the regimes returns from inside the loop,
\* at a segment whose scale_stop is scale_out, after at most four rg_evolve
\* calls; `return sol` after the loops is never reached.
C13_Terminal ==
    (/\ WellFormed
     /\ args.scale_in # args.scale_out
     /\ args.scale_out >= StrangeThreshold)
    => /\ Len(calls) <= 4
       /\ result.via # "fallback"
       /\ result.kind # "UnboundLocalError"
       /\ (pc = "done" /\ result.kind = "value" /\ result.via # "hit")
            => /\ result.via = "terminal"
               /\ Len(calls) >= 1
               /\ calls[Len(calls)].scale_out = args.scale_out
               /\ result.val = rg_evolve(calls[Len(calls)].initial,
                                         calls[Len(calls)].derivative,
                                         calls[Len(calls)].scale_in,
                                         calls[Len(calls)].scale_out)
       /\ pc \in {"down", "up"} => nf \in 3..6

\* Four rg_evolve calls, the last one ending at scale_out, both directions
\* being reachable (here: running up through every regime).
C13_Witness ==
    /\ WellFormed /\ args.scale_in < args.scale_out
    /\ pc = "done" /\ result.via = "terminal"
    /\ Len(calls) = 4 /\ calls[4].scale_out = args.scale_out

\* The outcome <<kind, via>> of one call whose key is not cached and whose
\* rg_evolve calls all succeed, computed in one piece from the same guards
\* and loop conditions as the step-by-step actions: ran says whether sol is
\* bound.
RECURSIVE DownOutcome(_, _, _)
DownOutcome(a, n, ran) ==
    IF n < 3
    THEN IF ran THEN <<"value", "fallback">>
                ELSE <<"UnboundLocalError", "fallback">>
    ELSE IF DownSkip(a, n) THEN DownOutcome(a, n - 1, ran)
    ELSE IF DownStop(a, n) = a.scale_out THEN <<"value", "terminal">>
    ELSE DownOutcome(a, n - 1, TRUE)
RECURSIVE UpOutcome(_, _, _)
UpOutcome(a, n, ran) ==
    IF n > 6
    THEN IF ran THEN <<"value", "fallback">>
                ELSE <<"UnboundLocalError", "fallback">>
    ELSE IF UpSkip(a, n) THEN UpOutcome(a, n + 1, ran)
    ELSE IF UpStop(a, n) = a.scale_out THEN <<"value", "terminal">>
    ELSE UpOutcome(a, n + 1, TRUE)
EvolveOutcome(a) ==
    IF SameScale(a) THEN <<"value", "identity">>
    ELSE IF BelowStrange(a) THEN <<"ValueError", "guard">>
    ELSE IF a.scale_in > a.scale_out THEN DownOutcome(a, 6, FALSE)
    ELSE IF a.scale_in < a.scale_out THEN UpOutcome(a, 3, FALSE)
    ELSE <<"UnboundLocalError", "fallback">>

\* Masses that are not strictly increasing above 0.1, or a mass equal to
\* one of the two scales of the call.
Degenerate(a) ==
    \/ ~ (StrangeThreshold < a.mc /\ a.mc < a.mb /\ a.mb < a.mt)
    \/ {a.mc, a.mb, a.mt} \cap {a.scale_in, a.scale_out} # {}

\* C14 (as claimed): with non-monotonic thresholds, or thresholds equal to
\* scale_in or scale_out, there are calls with scale_in # scale_out and
\* scale_out >= 0.1 whose loop over the regimes completes without the
\* terminal condition and which return the last segment result through
\* `return sol`: a process that has not called yet can make such a call.
C14_FallbackClaimed ==
    pc = "idle" =>
        \E a \in AllArgs :
            /\ Degenerate(a)
            /\ a.scale_in # a.scale_out
            /\ a.scale_out >= StrangeThreshold
            /\ EvolveOutcome(a) = <<"value", "fallback">>

\* C14 (amended): whatever the masses, a call with scale_in # scale_out and
\* scale_out >= 0.1 never reaches `return sol` after the loops: every value
\* it returns comes from the terminal condition inside the loop, and no
\* argument tuple has the fallback as its outcome.  The outcome computed in
\* one piece is the outcome of the step-by-step run.
C14_NoFallback ==
    /\ (args.scale_in # args.scale_out
           /\ args.scale_out >= StrangeThreshold)
        => /\ result.via # "fallback"
           /\ (pc = "done" /\ result.kind = "value" /\ result.via # "hit")
                => result.via = "terminal"
    /\ (pc = "done" /\ result.via # "hit"
           /\ result.kind # "IntegrationError")
        => <<result.kind, result.via>> = EvolveOutcome(args)
    /\ pc = "idle"
        => \A a \in AllArgs :
              (a.scale_in # a.scale_out
                 /\ a.scale_out >= StrangeThreshold)
              => EvolveOutcome(a) = <<"value", "terminal">>

\* A call with non-monotonic masses, one of them equal to scale_in, that
\* returned from inside the loop after more than one segment.
C14_Witness ==
    /\ pc = "done" /\ result.kind = "value" /\ result.via = "terminal"
    /\ args.mc > args.mb
    /\ args.scale_in \in {args.mc, args.mb, args.mt}
    /\ Len(calls) >= 2

\* ------------------------------------------------------- the wrappers
\* get_alpha, get_mq and get_wilson (running.py:62-69, :84-94, :143-162).
\* Each of get_mq and get_wilson first calls get_alpha(par, scale_in) and
\* then the driver with a selector closure it has just defined.

\* Number of selector closures that can be alive in one process.
MaxMq == 2

\* The parameter dictionary of the process: the quark masses and the Z mass
\* (0.1 < mc < mb < MZ < mt).
par == [mc |-> 3, mb |-> 4, Z |-> 5, mt |-> 6]
\* The scales the wrappers are called with: below 0.1, between 0.1 and mc,
\* the Z mass, above mt.
WrapperScales == {1, 3, par.Z, MaxScale}

\* betafunctions.betafunctions_qcd_qed_nf (running.py:68): an attribute of a
\* module, the same object at every call.
betafunctions_qcd_qed_nf == 1

\* [par['alpha_s'], par['alpha_e']] (running.py:66), and the initial vectors
\* the wrappers build from the couplings at scale_in and their own input:
\* [alphas_in, m_in] (running.py:86) and np.append(c_in, ...) (:151).  Two
\* of them are equal exactly when input and couplings are.
alpha_in == Vector(1, <<>>)
x_in_mq(alpha, m_in) == Vector(2 * m_in, alpha.path)
x_in_wilson(alpha, c_in) == Vector(2 * c_in + 1, alpha.path)

\* Mutant of NewSelector: one selector object for all calls.
SharedSelector == betafunctions_qcd_qed_nf + 1
\* `def derivative_nf(nf)` inside get_mq and get_wilson (running.py:91-92,
\* :159-160) creates a function object at every call: its identity differs
\* from that of every object still referred to, which the selectors in the
\* cache keys are.
NewSelector ==
    LET alive == {betafunctions_qcd_qed_nf}
                 \cup {cache[i].key[5] : i \in 1..Len(cache)}
                 \cup {used[i].a.derivative_nf : i \in 1..Len(used)}
    IN  1 + CHOOSE n \in alive : \A k \in alive : k <= n

\* get_alpha(par, scale): the driver call of running.py:68.
get_alpha(p, scale) ==
    rg_evolve_sm([initial_condition |-> alpha_in,
                  mc |-> p.mc, mb |-> p.mb, mt |-> p.mt,
                  derivative_nf |-> betafunctions_qcd_qed_nf,
                  scale_in |-> p.Z, scale_out |-> scale])

\* The nested get_alpha call has returned the couplings at scale_in: the
\* wrapper is at running.py:86 or :151.
AlphaReturned ==
    /\ pc = "done" /\ result.kind = "value"
    /\ args.derivative_nf = betafunctions_qcd_qed_nf

\* First statement of get_mq and of get_wilson (running.py:85, :149):
\* get_alpha(par, scale_in).  An exception of get_alpha ends the wrapper.
\* No wrapper is called once MaxMq closures are in the cache keys.
WrapperCall ==
    /\ pc \in {"idle", "done"} /\ ~ AlphaReturned
    /\ NewSelector <= betafunctions_qcd_qed_nf + MaxMq
    /\ \E scale_in \in WrapperScales : get_alpha(par, scale_in)

\* The rest of get_mq (running.py:86-93); scale_in is the scale the nested
\* get_alpha call was made with.  The inputs m_in and scale_out, fixed
\* when get_mq was called, are drawn here, where they are first used.
get_mq(p, m_in, scale_in, scale_out) ==
    rg_evolve_sm([initial_condition |-> x_in_mq(result.val, m_in),
                  mc |-> p.mc, mb |-> p.mb, mt |-> p.mt,
                  derivative_nf |-> NewSelector,
                  scale_in |-> scale_in, scale_out |-> scale_out])
MqCall ==
    /\ AlphaReturned
    /\ \E m_in \in 1..MaxInit, scale_out \in WrapperScales :
          get_mq(par, m_in, args.scale_out, scale_out)

\* The rest of get_wilson (running.py:151-161).
get_wilson(p, c_in, scale_in, scale_out) ==
    rg_evolve_sm([initial_condition |-> x_in_wilson(result.val, c_in),
                  mc |-> p.mc, mb |-> p.mb, mt |-> p.mt,
                  derivative_nf |-> NewSelector,
                  scale_in |-> scale_in, scale_out |-> scale_out])
WilsonCall ==
    /\ AlphaReturned
    /\ \E c_in \in 1..MaxInit, scale_out \in WrapperScales :
          get_wilson(par, c_in, args.scale_out, scale_out)

NextMq == WrapperCall \/ MqCall \/ WilsonCall \/ DownIter \/ UpIter

SpecMq == Init /\ [][NextMq]_vars

\* The call being made or running was made by get_mq or get_wilson with a
\* selector closure, and passes both guards.
ClosureCall(a) ==
    /\ a.derivative_nf # betafunctions_qcd_qed_nf
    /\ a.scale_in # a.scale_out
    /\ a.scale_out >= StrangeThreshold
\* Some cached key equals the key of a in everything but the selector.
CachedButSelector(c, a) ==
    \E i \in 1..Len(c) :
        /\ c[i].key[5] # a.derivative_nf
        /\ [c[i].key EXCEPT ![5] = a.derivative_nf] = KeyOf(a)

\* C15: the identity of the selector is part of the key.  get_mq and
\* get_wilson define their selector anew at every call, so the driver call
\* of a repeated get_mq or get_wilson call is a miss even when the cache
\* holds a key that differs from it in the selector only: rg_evolve runs
\* again and a further entry is inserted next to the old ones.  Only the
\* nested get_alpha call, whose selector is one fixed function, is answered
\* from the cache.
C15_SelectorMiss ==
    [][ /\ (pc \in {"idle", "done"} /\ ClosureCall(args'))
           => /\ \A i \in 1..Len(cache) :
                    cache[i].key[5] # args'.derivative_nf
              /\ result'.via # "hit"
              /\ pc' \in {"down", "up"} /\ calls' = <<>>
              /\ cache' = cache
        /\ (pc \in {"down", "up"} /\ ClosureCall(args)
              /\ pc' = "done" /\ result'.kind = "value")
           => /\ Len(calls') >= 1
              /\ cache' =
                   LET c1 == Append(cache, [key |-> KeyOf(args),
                                            val |-> result'.val])
                   IN  IF Len(c1) > maxsize THEN Tail(c1) ELSE c1
        /\ result'.via = "hit"
           => args'.derivative_nf = betafunctions_qcd_qed_nf
      ]_vars

\* A repeated wrapper call has returned: its nested get_alpha call ran (its
\* scale_in is not the Z mass) and its driver call computed a second entry
\* whose key differs from a cached one in the selector only.
C15_Witness ==
    /\ pc = "done" /\ result.kind = "value" /\ result.via = "terminal"
    /\ ClosureCall(args) /\ args.scale_in # par.Z
    /\ Len(calls) >= 2
    /\ CachedButSelector(cache, args)
    /\ Cached(cache, args)

\* C16: a call that takes the identity short-circuit (scale_in =
\* scale_out) or fails the domain guard (scale_out < 0.1) neither reads nor
\* writes the cache: entries and LRU order are the same after the call as
\* before, it returns at once, and no rg_evolve call is made.
C16_GuardFrame ==
    [][ (args'.scale_in = args'.scale_out
           \/ args'.scale_out < StrangeThreshold)
        => /\ cache' = cache
           /\ used' = used
           /\ pc' = "done" /\ calls' = <<>>
           /\ result'.via \in {"identity", "guard"}
      ]_vars

\* A call failed the domain guard while the cache held several entries.
C16_Witness ==
    /\ pc = "done" /\ result.kind = "ValueError" /\ result.via = "guard"
    /\ args.scale_out < StrangeThreshold
    /\ Len(cache) >= 3
====
